---- MODULE Spec2Model ----
(***************************************************************************)
(* Model of server.js: five POST endpoints, each validating its body,      *)
(* making one call to the identity provider's client, and translating the  *)
(* provider's reply into a JSON response, inside one try/catch.            *)
(*                                                                         *)
(* A request is followed through the handler's two synchronous segments:   *)
(* the code before the await (HandlerStart) and the code after it          *)
(* (HandlerResume).  Between them the provider settles the call            *)
(* (ProviderSettle), or never does.                                        *)
(***************************************************************************)
EXTENDS Integers, Sequences, FiniteSets, TLC

VARIABLES
  req,        \* per request slot: position, inputs, calls made, reply, responses sent
  accounts,   \* the provider's per-account state (used by SpecProvider only)
  served      \* history: what the provider's account looked like when it served the call

vars == <<req, accounts, served>>

(***************************************************************************)
(* Bounds                                                                  *)
(***************************************************************************)
NumRequests == 2

Requests == 1..NumRequests

(***************************************************************************)
(* JavaScript values.  Every value is a record tagged with its type, so    *)
(* that truthiness, ||, && and ! are computed as JavaScript computes them. *)
(***************************************************************************)
Undef == [t |-> "undefined"]

Null == [t |-> "null"]

Str(s) == [t |-> "string", v |-> s]

Bool(b) == [t |-> "boolean", v |-> b]

Truthy(x) ==
  CASE x.t = "undefined" -> FALSE
    [] x.t = "null"      -> FALSE
    [] x.t = "boolean"   -> x.v
    [] x.t = "string"    -> x.v # ""
    [] OTHER             -> TRUE          \* objects

\* a || b
Or(a, b) == IF Truthy(a) THEN a ELSE b

\* a && b
And(a, b) == IF Truthy(a) THEN b ELSE a

\* !a
Not(a) == Bool(~Truthy(a))

\* String.prototype.includes
Includes(s, t) ==
  \E i \in 1..(Len(s) - Len(t) + 1) : SubSeq(s, i, i + Len(t) - 1) = t

\* o?.access_token
OptAccessToken(o) == IF o.t \in {"undefined", "null"} THEN Undef ELSE o.access_token

(***************************************************************************)
(* Responses.  res.json(body) sends status 200 unless res.status(n) was    *)
(* called first.  A key whose value is undefined is dropped by JSON        *)
(* serialisation, so Undef stands for a key that is not in the body.       *)
(***************************************************************************)
Response(status, success, needsVerification, user, token, message) ==
  [status |-> status,
   body |-> [success |-> Bool(success), needsVerification |-> needsVerification,
             user |-> user, token |-> token, message |-> message]]

UserView(user) ==
  [t |-> "object", id |-> user.id, email |-> user.email,
   emailConfirmed |-> Not(Not(user.email_confirmed_at))]

\* the catch block of every handler
InternalServerError ==
  Response(500, FALSE, Undef, Undef, Undef, Str("Internal server error"))

\* result of running a try body: whether it threw, and the responses it sent
Completed(sent) == [threw |-> FALSE, sent |-> sent, calls |-> <<>>]

Threw == [threw |-> TRUE, sent |-> <<>>, calls |-> <<>>]

Awaiting(call) == [threw |-> FALSE, sent |-> <<>>, calls |-> <<call>>]

\* variant: the catch block reports the caught error's own message
TryCatchLeaks(t) ==
  IF t.threw
  THEN [t EXCEPT !.threw = FALSE,
                 !.sent = t.sent \o <<Response(500, FALSE, Undef, Undef, Undef,
                                               Str("TypeError: fetch failed"))>>]
  ELSE t

\* try { ... } catch (error) { res.status(500).json(...) }
TryCatch(t) ==
  IF t.threw THEN [t EXCEPT !.threw = FALSE, !.sent = t.sent \o <<InternalServerError>>]
  ELSE t

(***************************************************************************)
(* Provider calls.  A call records the method and the arguments passed;    *)
(* an argument that is not passed is Undef.                                *)
(***************************************************************************)
Call(method, email, password, token_hash, type, emailRedirectTo) ==
  [method |-> method, email |-> email, password |-> password,
   token_hash |-> token_hash, type |-> type, emailRedirectTo |-> emailRedirectTo]

\* variant: the Origin header is ignored
redirectUrlFixed(headers) == Str("http://localhost:4200" \o "/verify-email")

redirectUrl(headers) ==
  Str(Or(headers.origin, Str("http://localhost:4200")).v \o "/verify-email")

(***************************************************************************)
(* /api/signup                                                             *)
(***************************************************************************)
SignupStart(r) ==
  LET email == r.body.email
      password == r.body.password
  IN IF ~Truthy(email) \/ ~Truthy(password)
     THEN Completed(<<Response(400, FALSE, Undef, Undef, Undef,
                               Str("Email and password are required"))>>)
     ELSE Awaiting(Call("signUp", email, password, Undef, Undef, redirectUrl(r.headers)))

\* variant: the negation is missing
needsVerificationNoNegation(data) == And(data.user, data.user.email_confirmed_at)

needsVerification(data) == And(data.user, Not(data.user.email_confirmed_at))

\* variant: the return after the error response is missing, so the handler goes on
\* to read data.user
SignupResumeFallsThrough(reply) ==
  IF reply.kind = "rejected" THEN Threw
  ELSE LET data == reply.value.data
           error == reply.value.error
           first == IF Truthy(error)
                    THEN <<Response(400, FALSE, Undef, Undef, Undef, error.message)>>
                    ELSE <<>>
       IN IF ~Truthy(data.user) THEN [threw |-> TRUE, sent |-> first, calls |-> <<>>]
          ELSE Completed(first \o
                 <<Response(200, TRUE, Not(data.user.email_confirmed_at), UserView(data.user),
                            OptAccessToken(data.session),
                            IF ~Truthy(data.user.email_confirmed_at)
                            THEN Str("Please check your email to verify your account")
                            ELSE Str("Account created successfully"))>>)

SignupResume(reply) ==
  IF reply.kind = "rejected" THEN Threw
  ELSE LET data == reply.value.data
           error == reply.value.error
       IN IF Truthy(error)
          THEN Completed(<<Response(400, FALSE, Undef, Undef, Undef, error.message)>>)
          ELSE IF ~Truthy(data.user) THEN Threw      \* data.user.id on a null user
          ELSE Completed(<<Response(200, TRUE, needsVerification(data), UserView(data.user),
                                    OptAccessToken(data.session),
                                    IF Truthy(needsVerification(data))
                                    THEN Str("Please check your email to verify your account")
                                    ELSE Str("Account created successfully"))>>)

(***************************************************************************)
(* /api/login                                                              *)
(***************************************************************************)
LoginStart(r) ==
  LET email == r.body.email
      password == r.body.password
  IN IF ~Truthy(email) \/ ~Truthy(password)
     THEN Completed(<<Response(400, FALSE, Undef, Undef, Undef,
                               Str("Email and password are required"))>>)
     ELSE Awaiting(Call("signInWithPassword", email, password, Undef, Undef, Undef))

VerifyFirst ==
  Response(401, FALSE, Bool(TRUE), Undef, Undef,
           Str("Please verify your email before logging in"))

\* variant: the error text is compared for equality instead of searched
LoginResumeExactText(reply) ==
  IF reply.kind = "rejected" THEN Threw
  ELSE LET data == reply.value.data
           error == reply.value.error
       IN IF Truthy(error)
          THEN IF error.message.v = "Email not confirmed"
               THEN Completed(<<VerifyFirst>>)
               ELSE Completed(<<Response(401, FALSE, Undef, Undef, Undef, error.message)>>)
          ELSE IF ~Truthy(data.user) THEN Threw
          ELSE IF ~Truthy(data.user.email_confirmed_at)
               THEN Completed(<<VerifyFirst>>)
               ELSE Completed(<<Response(200, TRUE, Undef, UserView(data.user),
                                         OptAccessToken(data.session), Undef)>>)

\* variant: the check of the confirmation timestamp is missing
LoginResumeNoTimestampCheck(reply) ==
  IF reply.kind = "rejected" THEN Threw
  ELSE LET data == reply.value.data
           error == reply.value.error
       IN IF Truthy(error)
          THEN IF Includes(error.message.v, "Email not confirmed")
               THEN Completed(<<VerifyFirst>>)
               ELSE Completed(<<Response(401, FALSE, Undef, Undef, Undef, error.message)>>)
          ELSE IF ~Truthy(data.user) THEN Threw
          ELSE Completed(<<Response(200, TRUE, Undef, UserView(data.user),
                                    OptAccessToken(data.session), Undef)>>)

\* variant: the timestamp is read from a field the user object does not have
LoginResumeWrongField(reply) ==
  IF reply.kind = "rejected" THEN Threw
  ELSE LET data == reply.value.data
           error == reply.value.error
       IN IF Truthy(error)
          THEN IF Includes(error.message.v, "Email not confirmed")
               THEN Completed(<<VerifyFirst>>)
               ELSE Completed(<<Response(401, FALSE, Undef, Undef, Undef, error.message)>>)
          ELSE IF ~Truthy(data.user) THEN Threw
          ELSE Completed(<<VerifyFirst>>)

LoginResume(reply) ==
  IF reply.kind = "rejected" THEN Threw
  ELSE LET data == reply.value.data
           error == reply.value.error
       IN IF Truthy(error)
          THEN IF Includes(error.message.v, "Email not confirmed")
               THEN Completed(<<VerifyFirst>>)
               ELSE Completed(<<Response(401, FALSE, Undef, Undef, Undef, error.message)>>)
          ELSE IF ~Truthy(data.user) THEN Threw      \* data.user.email_confirmed_at on null
          ELSE IF ~Truthy(data.user.email_confirmed_at)
               THEN Completed(<<VerifyFirst>>)
               ELSE Completed(<<Response(200, TRUE, Undef, UserView(data.user),
                                         OptAccessToken(data.session), Undef)>>)

(***************************************************************************)
(* /api/logout                                                             *)
(***************************************************************************)
LogoutStart(r) ==
  Awaiting(Call("signOut", Undef, Undef, Undef, Undef, Undef))

\* variant: the provider's error is not looked at
LogoutResumeIgnoresError(reply) ==
  IF reply.kind = "rejected" THEN Threw
  ELSE Completed(<<Response(200, TRUE, Undef, Undef, Undef, Str("Logged out successfully"))>>)

LogoutResume(reply) ==
  IF reply.kind = "rejected" THEN Threw
  ELSE LET error == reply.value.error
       IN IF Truthy(error)
          THEN Completed(<<Response(400, FALSE, Undef, Undef, Undef, error.message)>>)
          ELSE Completed(<<Response(200, TRUE, Undef, Undef, Undef,
                                    Str("Logged out successfully"))>>)

(***************************************************************************)
(* /api/verify-email                                                       *)
(***************************************************************************)
\* variant: && in place of || in the presence check
VerifyEmailStartBothMissing(r) ==
  LET tokenHash == r.body.tokenHash
      type == r.body.type
  IN IF ~Truthy(tokenHash) /\ ~Truthy(type)
     THEN Completed(<<Response(400, FALSE, Undef, Undef, Undef,
                               Str("Token hash and type are required"))>>)
     ELSE Awaiting(Call("verifyOtp", Undef, Undef, tokenHash, type, Undef))

VerifyEmailStart(r) ==
  LET tokenHash == r.body.tokenHash
      type == r.body.type
  IN IF ~Truthy(tokenHash) \/ ~Truthy(type)
     THEN Completed(<<Response(400, FALSE, Undef, Undef, Undef,
                               Str("Token hash and type are required"))>>)
     ELSE Awaiting(Call("verifyOtp", Undef, Undef, tokenHash, type, Undef))

VerifyEmailResume(reply) ==
  IF reply.kind = "rejected" THEN Threw
  ELSE LET data == reply.value.data
           error == reply.value.error
       IN IF Truthy(error)
          THEN Completed(<<Response(400, FALSE, Undef, Undef, Undef, error.message)>>)
          ELSE IF ~Truthy(data.user) THEN Threw      \* data.user.id on a null user
          ELSE Completed(<<Response(200, TRUE, Undef, UserView(data.user),
                                    OptAccessToken(data.session),
                                    Str("Email verified successfully"))>>)

(***************************************************************************)
(* /api/resend-verification                                                *)
(***************************************************************************)
ResendVerificationStart(r) ==
  LET email == r.body.email
  IN IF ~Truthy(email)
     THEN Completed(<<Response(400, FALSE, Undef, Undef, Undef, Str("Email is required"))>>)
     ELSE Awaiting(Call("resend", email, Undef, Undef, Str("signup"), redirectUrl(r.headers)))

\* variant: the call is made again when the provider reports an error
ResendVerificationResumeRetries(reply) ==
  IF reply.kind = "rejected" THEN Threw
  ELSE LET error == reply.value.error
       IN IF Truthy(error)
          THEN Awaiting(Call("resend", Undef, Undef, Undef, Str("signup"), Undef))
          ELSE Completed(<<Response(200, TRUE, Undef, Undef, Undef,
                                    Str("Verification email sent successfully"))>>)

ResendVerificationResume(reply) ==
  IF reply.kind = "rejected" THEN Threw
  ELSE LET error == reply.value.error
       IN IF Truthy(error)
          THEN Completed(<<Response(400, FALSE, Undef, Undef, Undef, error.message)>>)
          ELSE Completed(<<Response(200, TRUE, Undef, Undef, Undef,
                                    Str("Verification email sent successfully"))>>)

(***************************************************************************)
(* Routing                                                                 *)
(***************************************************************************)
Endpoints == {"signup", "login", "logout", "verify-email", "resend-verification"}

\* the handler's code up to its await (or to its early return)
Start(r) ==
  TryCatch(CASE r.endpoint = "signup"              -> SignupStart(r)
             [] r.endpoint = "login"               -> LoginStart(r)
             [] r.endpoint = "logout"              -> LogoutStart(r)
             [] r.endpoint = "verify-email"        -> VerifyEmailStart(r)
             [] r.endpoint = "resend-verification" -> ResendVerificationStart(r))

\* the handler's code after its await
Resume(r) ==
  TryCatch(CASE r.endpoint = "signup"              -> SignupResume(r.reply)
             [] r.endpoint = "login"               -> LoginResume(r.reply)
             [] r.endpoint = "logout"              -> LogoutResume(r.reply)
             [] r.endpoint = "verify-email"        -> VerifyEmailResume(r.reply)
             [] r.endpoint = "resend-verification" -> ResendVerificationResume(r.reply))

(***************************************************************************)
(* Request slots                                                           *)
(***************************************************************************)
Body(email, password, tokenHash, type) ==
  [email |-> email, password |-> password, tokenHash |-> tokenHash, type |-> type]

Pending == [kind |-> "pending"]

Rejected == [kind |-> "rejected"]

Resolved(user, session, error) ==
  [kind |-> "resolved",
   value |-> [data |-> [user |-> user, session |-> session], error |-> error]]

\* the provider's accounts, and the record of how a call was served
ProviderEmails == {"a@b.com"}

NoAccount ==
  [exists |-> FALSE, password |-> Undef, email_confirmed_at |-> Null, confirmedBy |-> "nobody"]

NotServed == [account |-> "none", accepted |-> FALSE]

Idle ==
  [pc |-> "idle", endpoint |-> "none", body |-> Body(Undef, Undef, Undef, Undef),
   headers |-> [origin |-> Undef], calls |-> <<>>, reply |-> Pending, sent |-> <<>>]

Init ==
  /\ req = [r \in Requests |-> Idle]
  /\ accounts = [e \in ProviderEmails |-> NoAccount]
  /\ served = [r \in Requests |-> NotServed]

\* a request arrives, its JSON body parsed into an object by express.json()
Arrive(r, inputs) ==
  /\ req[r].pc = "idle"
  /\ \E i \in inputs :
       req' = [req EXCEPT ![r] = [Idle EXCEPT !.pc = "received", !.endpoint = i.endpoint,
                                              !.body = i.body, !.headers = i.headers]]
  /\ UNCHANGED <<accounts, served>>

\* the handler runs up to its await: validation, then the provider call
HandlerStart(r) ==
  /\ req[r].pc = "received"
  /\ LET out == Start(req[r])
     IN req' = [req EXCEPT ![r].calls = @ \o out.calls,
                           ![r].sent = @ \o out.sent,
                           ![r].pc = IF out.calls # <<>> THEN "awaiting" ELSE "done"]
  /\ UNCHANGED <<accounts, served>>

\* the provider's promise settles: it resolves with a reply, or rejects
ProviderSettle(r, replies) ==
  /\ req[r].pc = "awaiting"
  /\ \E rep \in replies : req' = [req EXCEPT ![r].reply = rep, ![r].pc = "settled"]
  /\ UNCHANGED <<accounts, served>>

\* the handler continues after its await: translation of the reply
HandlerResume(r) ==
  /\ req[r].pc = "settled"
  /\ LET out == Resume(req[r])
     IN req' = [req EXCEPT ![r].calls = @ \o out.calls,
                           ![r].sent = @ \o out.sent,
                           ![r].pc = "done"]
  /\ UNCHANGED <<accounts, served>>

\* the exchange is over; the slot is free for the next request
Close(r) ==
  /\ req[r].pc = "done"
  /\ req' = [req EXCEPT ![r] = Idle]
  /\ served' = [served EXCEPT ![r] = NotServed]
  /\ UNCHANGED accounts

(***************************************************************************)
(* Spec: one request at a time, with every shape of body, header and       *)
(* provider reply.  The handlers share no variable, so the per-request     *)
(* properties lose nothing by it; interleavings are explored by            *)
(* SpecConcurrent and SpecProvider.                                        *)
(***************************************************************************)
FieldValues(v) == {Undef, Null, Str(""), Str(v)}

OriginValues == {Undef, Str(""), Str("null"), Str("https://app.example")}

BodiesOf(endpoint) ==
  CASE endpoint \in {"signup", "login"} ->
         {Body(e, p, Undef, Undef) : e \in FieldValues("a@b.com"), p \in FieldValues("secret123")}
    [] endpoint = "logout" -> {Body(Undef, Undef, Undef, Undef)}
    [] endpoint = "verify-email" ->
         {Body(Undef, Undef, h, t) : h \in FieldValues("h1"), t \in FieldValues("signup")}
    [] endpoint = "resend-verification" ->
         {Body(e, Undef, Undef, Undef) : e \in FieldValues("a@b.com")}

AllInputs ==
  UNION {{[endpoint |-> ep, body |-> b, headers |-> [origin |-> o]] :
            b \in BodiesOf(ep), o \in OriginValues} : ep \in Endpoints}

ErrorObject(message) == [t |-> "object", message |-> Str(message)]

ErrorMessages ==
  {"Email not confirmed", "AuthApiError: Email not confirmed (400)",
   "email not confirmed", "Invalid login credentials", ""}

UserObject(email, confirmedAt) ==
  [t |-> "object", id |-> Str("u1"), email |-> email, email_confirmed_at |-> confirmedAt]

SessionObject == [t |-> "object", access_token |-> Str("jwt")]

ConfirmedAtValues == {Undef, Null, Str("2024-01-01T00:00:00Z")}

AllReplies ==
  {Rejected} \cup
  {Resolved(u, s, e) :
     u \in {Null} \cup {UserObject(Str("a@b.com"), c) : c \in ConfirmedAtValues},
     s \in {Null, SessionObject},
     e \in {Null} \cup {ErrorObject(m) : m \in ErrorMessages}}

ArriveAlone(r) ==
  /\ \A q \in Requests : req[q].pc = "idle"
  /\ Arrive(r, AllInputs)

ProviderAnswers(r) == ProviderSettle(r, AllReplies)

Next ==
  \E r \in Requests :
    \/ ArriveAlone(r)
    \/ HandlerStart(r)
    \/ ProviderAnswers(r)
    \/ HandlerResume(r)
    \/ Close(r)

Spec == Init /\ [][Next]_vars

(***************************************************************************)
(* Vocabulary of the properties                                            *)
(***************************************************************************)
Answered(r) == req[r].pc = "done"

Called(r) == req[r].pc \in {"awaiting", "settled", "done"} /\ req[r].calls # <<>>

TheResponse(r) == req[r].sent[1]

\* a field that is omitted, null or empty
Omitted(x) == x \in {Undef, Null, Str("")}

MissingRequired(r) ==
  CASE r.endpoint \in {"signup", "login"}  -> Omitted(r.body.email) \/ Omitted(r.body.password)
    [] r.endpoint = "verify-email"        -> Omitted(r.body.tokenHash) \/ Omitted(r.body.type)
    [] r.endpoint = "resend-verification" -> Omitted(r.body.email)
    [] OTHER                              -> FALSE

ProviderError(r) ==
  /\ req[r].reply.kind = "resolved"
  /\ req[r].reply.value.error # Null

ReturnedUser(r) == req[r].reply.value.data.user

HasTimestamp(user) == user.email_confirmed_at \notin {Undef, Null}

\* the provider's messages that contain the text 'Email not confirmed'
SaysNotConfirmed == {"Email not confirmed", "AuthApiError: Email not confirmed (400)"}

\* C1: a request that omits a required field is answered 400 with success:false,
\* and no provider call is made for it.
C1_MissingFieldIs400 ==
  \A r \in Requests :
    (req[r].pc # "idle" /\ req[r].pc # "received" /\ MissingRequired(req[r])) =>
      /\ req[r].pc = "done"
      /\ req[r].calls = <<>>
      /\ Len(req[r].sent) = 1
      /\ TheResponse(r).status = 400
      /\ TheResponse(r).body.success = Bool(FALSE)

C1_Witness ==
  \E r \in Requests :
    /\ Answered(r)
    /\ req[r].endpoint = "verify-email"
    /\ req[r].body.tokenHash = Str("h1")
    /\ req[r].body.type = Str("")
    /\ TheResponse(r).status = 400

\* C2 as stated: every reply to a login for an unconfirmed account (an error with
\* any message text, or a user without a confirmation timestamp) is answered 401
\* with needsVerification:true.
C2_AnyWordingNeedsVerification ==
  \A r \in Requests :
    (/\ Answered(r)
     /\ req[r].endpoint = "login"
     /\ req[r].reply.kind = "resolved"
     /\ \/ ProviderError(r)
        \/ (ReturnedUser(r) # Null /\ ~HasTimestamp(ReturnedUser(r)))) =>
      /\ TheResponse(r).status = 401
      /\ TheResponse(r).body.needsVerification = Bool(TRUE)

\* C2 amended: a login is answered 401 with needsVerification:true when the provider
\* returns an error whose message contains 'Email not confirmed', or no error and a
\* user without a confirmation timestamp; an error with any other wording is answered
\* 401 without needsVerification.
C2_NeedsVerificationByTextOrTimestamp ==
  \A r \in Requests :
    (Answered(r) /\ req[r].endpoint = "login" /\ req[r].reply.kind = "resolved") =>
      /\ (\/ (ProviderError(r) /\ req[r].reply.value.error.message.v \in SaysNotConfirmed)
          \/ (~ProviderError(r) /\ ReturnedUser(r) # Null /\ ~HasTimestamp(ReturnedUser(r)))) =>
           /\ Len(req[r].sent) = 1
           /\ TheResponse(r).status = 401
           /\ TheResponse(r).body.success = Bool(FALSE)
           /\ TheResponse(r).body.needsVerification = Bool(TRUE)
      /\ (ProviderError(r) /\ req[r].reply.value.error.message.v \notin SaysNotConfirmed) =>
           /\ Len(req[r].sent) = 1
           /\ TheResponse(r).status = 401
           /\ TheResponse(r).body.needsVerification = Undef

C2_Witness ==
  \E r \in Requests :
    /\ Answered(r)
    /\ req[r].endpoint = "login"
    /\ req[r].reply.kind = "resolved"
    /\ ~ProviderError(r)
    /\ ReturnedUser(r) # Null
    /\ ReturnedUser(r).email_confirmed_at = Undef
    /\ TheResponse(r).body.needsVerification = Bool(TRUE)

C4_SignupNeedsVerification ==
  \A r \in Requests :
    (/\ Answered(r)
     /\ req[r].endpoint = "signup"
     /\ Len(req[r].sent) >= 1
     /\ TheResponse(r).body.success = Bool(TRUE)) =>
      /\ req[r].reply.kind = "resolved"
      /\ ReturnedUser(r) # Null
      /\ TheResponse(r).body.needsVerification = Bool(~HasTimestamp(ReturnedUser(r)))
      /\ TheResponse(r).body.user.emailConfirmed = Bool(HasTimestamp(ReturnedUser(r)))
      /\ (TheResponse(r).body.message = Str("Please check your email to verify your account"))
           <=> ~HasTimestamp(ReturnedUser(r))

C4_Witness ==
  \E r \in Requests :
    /\ Answered(r)
    /\ req[r].endpoint = "signup"
    /\ TheResponse(r).status = 200
    /\ TheResponse(r).body.needsVerification = Bool(TRUE)
    /\ TheResponse(r).body.user.emailConfirmed = Bool(FALSE)

\* C6: a provider-reported error is answered 400 by signup, logout, verify-email and
\* resend-verification and 401 by login, with success:false; the message is the
\* provider's message unchanged, except a login error containing 'Email not confirmed',
\* which gets the fixed message.  Never 200, never 500.
C6_ProviderErrorStatus ==
  \A r \in Requests :
    (Answered(r) /\ ProviderError(r)) =>
      /\ Len(req[r].sent) = 1
      /\ TheResponse(r).status = IF req[r].endpoint = "login" THEN 401 ELSE 400
      /\ TheResponse(r).body.success = Bool(FALSE)
      /\ TheResponse(r).body.message =
           IF /\ req[r].endpoint = "login"
              /\ req[r].reply.value.error.message.v \in SaysNotConfirmed
           THEN Str("Please verify your email before logging in")
           ELSE req[r].reply.value.error.message

C6_Witness ==
  \E r \in Requests :
    /\ Answered(r) /\ ProviderError(r) /\ req[r].endpoint = "login"
    /\ req[r].reply.value.error.message = Str("AuthApiError: Email not confirmed (400)")
    /\ TheResponse(r).status = 401
    /\ TheResponse(r).body.message = Str("Please verify your email before logging in")

\* C7: a request makes at most one provider call; once its handler has passed
\* validation it has made exactly one when its required fields are present (logout:
\* always) and none otherwise; and no call is added once a response has been sent.
C7_CallsWithinBounds ==
  \A r \in Requests :
    /\ Len(req[r].calls) <= 1
    /\ (req[r].pc \in {"awaiting", "settled", "done"}) =>
         Len(req[r].calls) = IF MissingRequired(req[r]) THEN 0 ELSE 1

C7_NoCallAfterResponse ==
  \A r \in Requests : (req[r].sent # <<>>) => Len(req'[r].calls) <= Len(req[r].calls)

C7_OneProviderCall == [](C7_CallsWithinBounds) /\ [][C7_NoCallAfterResponse]_vars

C7_Witness ==
  \E r \in Requests :
    /\ Answered(r)
    /\ req[r].endpoint = "resend-verification"
    /\ ProviderError(r)
    /\ Len(req[r].calls) = 1
    /\ Len(req[r].sent) = 1

\* C8: signup and resend-verification pass emailRedirectTo = Origin header followed by
\* '/verify-email' when the header is present and non-empty, and
\* 'http://localhost:4200/verify-email' otherwise; the other endpoints pass none.
C8_RedirectTarget ==
  \A r \in Requests :
    Called(r) =>
      req[r].calls[1].emailRedirectTo =
        IF req[r].endpoint \in {"signup", "resend-verification"}
        THEN IF req[r].headers.origin \in {Undef, Str("")}
             THEN Str("http://localhost:4200/verify-email")
             ELSE Str(req[r].headers.origin.v \o "/verify-email")
        ELSE Undef

C8_Witness ==
  \E r \in Requests :
    /\ Called(r) /\ req[r].endpoint = "signup"
    /\ req[r].headers.origin = Str("https://app.example")
    /\ req[r].calls[1].emailRedirectTo = Str("https://app.example/verify-email")

\* C10: a login response with success:true is sent only when the provider returned no
\* error and a user with a confirmation timestamp; it has user.emailConfirmed true,
\* no needsVerification, and a token only when the provider returned a session.
C10_LoginSuccess ==
  \A r \in Requests :
    (/\ Answered(r)
     /\ req[r].endpoint = "login"
     /\ Len(req[r].sent) >= 1
     /\ TheResponse(r).body.success = Bool(TRUE)) =>
      /\ req[r].reply.kind = "resolved"
      /\ ~ProviderError(r)
      /\ ReturnedUser(r) # Null
      /\ HasTimestamp(ReturnedUser(r))
      /\ TheResponse(r).status = 200
      /\ TheResponse(r).body.user.emailConfirmed = Bool(TRUE)
      /\ TheResponse(r).body.needsVerification = Undef
      /\ (TheResponse(r).body.token # Undef) => req[r].reply.value.data.session # Null

C10_Witness ==
  \E r \in Requests :
    /\ Answered(r)
    /\ req[r].endpoint = "login"
    /\ TheResponse(r).body.success = Bool(TRUE)
    /\ TheResponse(r).body.token = Str("jwt")
    /\ req[r].reply.value.data.session = SessionObject

(***************************************************************************)
(* SpecConcurrent: the requests interleave freely.  Each request either    *)
(* carries all its fields or none; the provider rejects, reports an error  *)
(* or succeeds, or never settles the call (no fairness is asked of it).    *)
(* The two handler segments are callbacks of the event loop, which runs    *)
(* every callback that is ready: weak fairness on HandlerStart and         *)
(* HandlerResume.                                                          *)
(***************************************************************************)
CompleteBody(endpoint) ==
  CASE endpoint \in {"signup", "login"}    -> Body(Str("a@b.com"), Str("secret123"), Undef, Undef)
    [] endpoint = "verify-email"          -> Body(Undef, Undef, Str("h1"), Str("signup"))
    [] endpoint = "resend-verification"   -> Body(Str("a@b.com"), Undef, Undef, Undef)
    [] OTHER                              -> Body(Undef, Undef, Undef, Undef)

PlainInputs ==
  {[endpoint |-> ep, body |-> b, headers |-> [origin |-> Undef]] :
     ep \in Endpoints, b \in {Body(Undef, Undef, Undef, Undef)}} \cup
  {[endpoint |-> ep, body |-> CompleteBody(ep), headers |-> [origin |-> Undef]] :
     ep \in Endpoints}

PlainReplies ==
  {Rejected,
   Resolved(Null, Null, ErrorObject("Invalid login credentials")),
   Resolved(UserObject(Str("a@b.com"), Str("2024-01-01T00:00:00Z")), SessionObject, Null)}

ArriveAny(r) == Arrive(r, PlainInputs)

ProviderSettles(r) == ProviderSettle(r, PlainReplies)

NextConcurrent ==
  \E r \in Requests :
    \/ ArriveAny(r)
    \/ HandlerStart(r)
    \/ ProviderSettles(r)
    \/ HandlerResume(r)
    \/ Close(r)

SpecConcurrent ==
  /\ Init
  /\ [][NextConcurrent]_vars
  /\ \A r \in Requests : WF_vars(HandlerStart(r)) /\ WF_vars(HandlerResume(r))

\* C9: under any interleaving a request receives at most one response; a request
\* whose provider call has settled, or that fails validation, eventually has exactly
\* one response; a request whose call has not settled has no response.
C9_AtMostOneResponse == \A r \in Requests : Len(req[r].sent) <= 1

C9_NoResponseWhilePending ==
  \A r \in Requests :
    /\ (req[r].pc = "awaiting") => req[r].sent = <<>>
    /\ (req[r].sent # <<>> /\ req[r].calls # <<>>) => req[r].reply.kind # "pending"

C9_PendingStaysSilent ==
  \A r \in Requests :
    (req[r].pc = "awaiting" /\ req'[r].pc = "awaiting") => req'[r].sent = <<>>

C9_OneResponse ==
  /\ [](C9_AtMostOneResponse /\ C9_NoResponseWhilePending)
  /\ [][C9_PendingStaysSilent]_vars
  /\ \A r \in Requests :
       (req[r].pc = "settled" \/ (req[r].pc = "received" /\ MissingRequired(req[r])))
         ~> (req[r].pc = "done" /\ Len(req[r].sent) = 1)

C9_Witness ==
  /\ req[1].pc = "awaiting" /\ req[1].endpoint = "login"
  /\ req[2].pc = "done" /\ req[2].endpoint = "login"
  /\ req[2].reply.kind = "rejected"
  /\ Len(req[2].sent) = 1

(***************************************************************************)
(* SpecProvider: the provider holds a confirmation state per account.      *)
(* signUp creates the account, confirmed at once or awaiting verification; *)
(* verifyOtp with the account's token confirms it; signInWithPassword      *)
(* answers from the account's state.  The provider is not part of the      *)
(* repository: this is the behaviour the specification attributes to it.   *)
(***************************************************************************)
ConfirmedAt == Str("2024-01-01T00:00:00Z")

TokenOf(e) == Str("h1")

AccountStatus(a) ==
  IF ~a.exists THEN "absent"
  ELSE IF a.email_confirmed_at = Null THEN "unconfirmed"
  ELSE a.confirmedBy

Outcome(reply, account, accepted) ==
  [reply |-> reply, account |-> account, accepted |-> accepted]

Refused(a, message) == Outcome(Resolved(Null, Null, ErrorObject(message)), a, FALSE)

signUp(call, e, a) ==
  IF a.exists THEN {Refused(a, "User already registered")}
  ELSE {Outcome(Resolved(UserObject(call.email, Null), Null, Null),
                [exists |-> TRUE, password |-> call.password,
                 email_confirmed_at |-> Null, confirmedBy |-> "nobody"], TRUE),
        Outcome(Resolved(UserObject(call.email, ConfirmedAt), SessionObject, Null),
                [exists |-> TRUE, password |-> call.password,
                 email_confirmed_at |-> ConfirmedAt, confirmedBy |-> "signup"], TRUE)}

signInWithPassword(call, e, a) ==
  IF ~a.exists \/ a.password # call.password
  THEN {Refused(a, "Invalid login credentials")}
  ELSE IF a.email_confirmed_at = Null
  THEN {Refused(a, "Email not confirmed"),
        Outcome(Resolved(UserObject(call.email, Null), Null, Null), a, FALSE)}
  ELSE {Outcome(Resolved(UserObject(call.email, a.email_confirmed_at), SessionObject, Null),
                a, TRUE)}

verifyOtp(call, e, a) ==
  IF a.exists /\ a.email_confirmed_at = Null /\ call.token_hash = TokenOf(e)
     /\ call.type = Str("signup")
  THEN {Outcome(Resolved(UserObject(Str(e), ConfirmedAt), SessionObject, Null),
                [a EXCEPT !.email_confirmed_at = ConfirmedAt, !.confirmedBy = "verify"], TRUE)}
  ELSE {Refused(a, "Token has expired or is invalid")}

signOut(call, e, a) == {Outcome(Resolved(Null, Null, Null), a, TRUE)}

resend(call, e, a) == {Outcome(Resolved(Null, Null, Null), a, TRUE)}

Outcomes(call, e, a) ==
  CASE call.method = "signUp"             -> signUp(call, e, a)
    [] call.method = "signInWithPassword" -> signInWithPassword(call, e, a)
    [] call.method = "verifyOtp"          -> verifyOtp(call, e, a)
    [] call.method = "signOut"            -> signOut(call, e, a)
    [] call.method = "resend"             -> resend(call, e, a)

\* the provider serves the call of request r against the account's current state
ProviderServe(r) ==
  /\ req[r].pc = "awaiting"
  /\ \E e \in ProviderEmails :
       \E o \in Outcomes(req[r].calls[Len(req[r].calls)], e, accounts[e]) :
         /\ req' = [req EXCEPT ![r].reply = o.reply, ![r].pc = "settled"]
         /\ accounts' = [accounts EXCEPT ![e] = o.account]
         /\ served' = [served EXCEPT ![r] = [account |-> AccountStatus(accounts[e]),
                                             accepted |-> o.accepted]]

AccountInputs ==
  {[endpoint |-> "signup", body |-> Body(Str("a@b.com"), Str("secret123"), Undef, Undef),
    headers |-> [origin |-> Undef]],
   [endpoint |-> "login", body |-> Body(Str("a@b.com"), Str("secret123"), Undef, Undef),
    headers |-> [origin |-> Undef]],
   [endpoint |-> "login", body |-> Body(Str("a@b.com"), Str("wrong"), Undef, Undef),
    headers |-> [origin |-> Undef]],
   [endpoint |-> "verify-email", body |-> Body(Undef, Undef, Str("h1"), Str("signup")),
    headers |-> [origin |-> Undef]],
   [endpoint |-> "verify-email", body |-> Body(Undef, Undef, Str("bad"), Str("signup")),
    headers |-> [origin |-> Undef]],
   [endpoint |-> "logout", body |-> Body(Undef, Undef, Undef, Undef),
    headers |-> [origin |-> Undef]],
   [endpoint |-> "resend-verification", body |-> Body(Str("a@b.com"), Undef, Undef, Undef),
    headers |-> [origin |-> Undef]]}

ArriveForAccount(r) == Arrive(r, AccountInputs)

NextProvider ==
  \E r \in Requests :
    \/ ArriveForAccount(r)
    \/ HandlerStart(r)
    \/ ProviderServe(r)
    \/ HandlerResume(r)
    \/ Close(r)

SpecProvider == Init /\ [][NextProvider]_vars

\* C5: for an account that signup left unconfirmed, a verify-email that the provider
\* accepts is answered 200 with user.emailConfirmed true; a login with the correct
\* credentials served after it is answered 200 success:true without needsVerification,
\* and one served before it is answered 401; once verified the account stays verified.
CorrectLogin(r) ==
  /\ req[r].endpoint = "login"
  /\ req[r].body.email = Str("a@b.com")
  /\ req[r].body.password = Str("secret123")

C5_Responses ==
  \A r \in Requests :
    Answered(r) =>
      /\ (req[r].endpoint = "verify-email" /\ served[r].account = "unconfirmed"
          /\ served[r].accepted) =>
           /\ Len(req[r].sent) = 1
           /\ TheResponse(r).status = 200
           /\ TheResponse(r).body.user.emailConfirmed = Bool(TRUE)
      /\ (CorrectLogin(r) /\ served[r].account = "verify") =>
           /\ Len(req[r].sent) = 1
           /\ TheResponse(r).status = 200
           /\ TheResponse(r).body.success = Bool(TRUE)
           /\ TheResponse(r).body.needsVerification = Undef
      /\ (CorrectLogin(r) /\ served[r].account = "unconfirmed") =>
           /\ Len(req[r].sent) = 1
           /\ TheResponse(r).status = 401
           /\ TheResponse(r).body.needsVerification = Bool(TRUE)

C5_StaysVerified ==
  \A e \in ProviderEmails :
    (AccountStatus(accounts[e]) = "verify") => AccountStatus(accounts'[e]) = "verify"

C5_VerifyThenLogin == [](C5_Responses) /\ [][C5_StaysVerified]_vars

C5_Witness ==
  \E r \in Requests :
    /\ Answered(r)
    /\ CorrectLogin(r)
    /\ served[r].account = "verify"
    /\ TheResponse(r).status = 200

====
